---- MODULE Spec2Model ----
(***************************************************************************)
(* Identity reconciliation service (POST /identify).                       *)
(*                                                                         *)
(* The store is the contacts table; the operations are the HTTP handler    *)
(* IdentifyHandler.Handle and ReconciliationService.Identify with the      *)
(* queries and writes it issues.                                           *)
(***************************************************************************)
EXTENDS Integers, Sequences, FiniteSets, TLC

(* ---------------------------------------------------------------------- *)
(* Bounds and value domains                                                *)
(* ---------------------------------------------------------------------- *)

\* Largest number of rows the contacts table is allowed to hold in a run.
MaxContacts == 3

\* A nil *string / SQL NULL text column.
Nil == "nil"

\* A nil *int64 / SQL NULL linked_id (row ids start at 1).
NilID == 0

\* The empty string, which a JSON body may carry for either field.
Empty == ""

EmailValues == {Nil, "e1", "e2"}

PhoneValues == {Nil, "p1", "p2"}

\* models.IdentifyRequest: every combination of absent (null) and present
\* fields, and two bodies carrying the empty string.
Requests ==
    [email : EmailValues, phoneNumber : PhoneValues]
    \cup {[email |-> Empty, phoneNumber |-> "p1"],
          [email |-> Empty, phoneNumber |-> Empty]}

(* ---------------------------------------------------------------------- *)
(* State                                                                   *)
(* ---------------------------------------------------------------------- *)

VARIABLES
    contacts,   \* the contacts table: contacts[id] is the row with that id
    clock,      \* the value time.Now() returned to the last INSERT
    last,       \* what the last handled request did (observation only)
    calls       \* calls[c]: the request caller c has in progress, statement
                \* by statement (used where calls overlap or statements fail)

vars == <<contacts, clock, last, calls>>

\* models.Contact as an INSERT of the service leaves it: deleted_at is not
\* in the column list of either INSERT and stays NULL.  updated_at is left
\* out: every INSERT and UPDATE sets it to the clock's reading and no
\* statement reads it back.
Contact(email, phone, linkedID, precedence, createdAt) ==
    [email |-> email, phoneNumber |-> phone, linkedID |-> linkedID,
     linkPrecedence |-> precedence, createdAt |-> createdAt,
     deletedAt |-> Nil]

IDs(store) == DOMAIN store

(* ---------------------------------------------------------------------- *)
(* Store queries                                                           *)
(* ---------------------------------------------------------------------- *)

\* SELECT ... WHERE email = $1 AND deleted_at IS NULL
queryContactsByEmail(store, email) ==
    {i \in IDs(store) : store[i].email # Nil /\ store[i].email = email}

\* SELECT ... WHERE phone_number = $1 AND deleted_at IS NULL
queryContactsByPhoneNumber(store, phone) ==
    {i \in IDs(store) : store[i].phoneNumber # Nil /\ store[i].phoneNumber = phone}

\* SELECT ... WHERE linked_id = $1 AND deleted_at IS NULL
queryContactsByLinkedID(store, linkedID) ==
    {i \in IDs(store) : store[i].linkedID # NilID /\ store[i].linkedID = linkedID}

\* SELECT ... WHERE (id = $1 OR linked_id = $2) AND deleted_at IS NULL
getAllLinkedContacts(store, primaryID) ==
    {i \in IDs(store) : i = primaryID \/ store[i].linkedID = primaryID}

(* ---------------------------------------------------------------------- *)
(* ReconciliationService helpers                                           *)
(* ---------------------------------------------------------------------- *)

\* The rows matching the request directly (the first two loops of
\* findLinkedContacts); a nil or empty field issues no query.
matchedContacts(store, email, phone) ==
    (IF email # Nil /\ email # Empty
        THEN queryContactsByEmail(store, email) ELSE {})
    \cup
    (IF phone # Nil /\ phone # Empty
        THEN queryContactsByPhoneNumber(store, phone) ELSE {})

\* findLinkedContacts: the matched rows, plus for every linked_id found on
\* them the rows carrying that linked_id.
findLinkedContacts(store, email, phone) ==
    LET contactMap   == matchedContacts(store, email, phone)
        allLinkedIDs == {store[i].linkedID :
                            i \in {j \in contactMap : store[j].linkedID # NilID}}
    IN  contactMap \cup
        UNION {queryContactsByLinkedID(store, l) : l \in allLinkedIDs}

\* findOldestContact with the comparison turned round (After for Before).
findOldestContact_After(store, list) ==
    {i \in list : \A j \in list : store[i].createdAt >= store[j].createdAt}

\* findOldestContact: sort.Slice by CreatedAt.Before over a slice built in
\* map-iteration order and not stable; the first element is some row with
\* the least created_at. The set of rows it may return.
findOldestContact(store, list) ==
    {i \in list : \A j \in list : store[i].createdAt <= store[j].createdAt}

\* hasNewInformation asking for one row that carries all the request has.
hasNewInformation_OneRow(store, list, email, phone) ==
    ~ \E i \in list :
        /\ (email # Nil /\ email # Empty) => store[i].email = email
        /\ (phone # Nil /\ phone # Empty) => store[i].phoneNumber = phone

\* hasNewInformation
hasNewInformation(store, list, email, phone) ==
    LET existingEmails == {store[i].email : i \in {j \in list : store[j].email # Nil}}
        existingPhones == {store[i].phoneNumber :
                              i \in {j \in list : store[j].phoneNumber # Nil}}
    IN  \/ (email # Nil /\ email # Empty /\ email \notin existingEmails)
        \/ (phone # Nil /\ phone # Empty /\ phone \notin existingPhones)

\* createPrimaryContact with the two column arguments in the other order.
createPrimaryContact_Swapped(store, email, phone, now) ==
    Append(store, Contact(phone, email, NilID, "primary", now))

\* createPrimaryContact: INSERT ... 'primary'; the new row gets the next id.
createPrimaryContact(store, email, phone, now) ==
    Append(store, Contact(email, phone, NilID, "primary", now))

\* createSecondaryContact with an INSERT that leaves linked_id out.
createSecondaryContact_Unlinked(store, email, phone, linkedID, now) ==
    Append(store, Contact(email, phone, NilID, "secondary", now))

\* createSecondaryContact: INSERT ... linked_id, 'secondary'.
createSecondaryContact(store, email, phone, linkedID, now) ==
    Append(store, Contact(email, phone, linkedID, "secondary", now))

\* reconcileWrites leaving alone a secondary whatever row it is linked to.
reconcileWrites_AnyParent(snap, list, primaryID) ==
    {i \in list :
        IF i = primaryID
        THEN snap[i].linkPrecedence # "primary"
        ELSE \/ snap[i].linkPrecedence # "secondary"
             \/ snap[i].linkedID = NilID}

\* The rows reconcilePrimaryStatus issues an UPDATE for, judged on the rows
\* as they were read by findLinkedContacts (snap).
reconcileWrites(snap, list, primaryID) ==
    {i \in list :
        IF i = primaryID
        THEN snap[i].linkPrecedence # "primary"
        ELSE \/ snap[i].linkPrecedence # "secondary"
             \/ snap[i].linkedID = NilID
             \/ snap[i].linkedID # primaryID}

\* updateContactPrecedence with an UPDATE that does not set linked_id.
updateContactPrecedence_KeepLink(row, precedence, linkedID) ==
    [row EXCEPT !.linkPrecedence = precedence]

\* updateContactPrecedence: UPDATE contacts SET link_precedence, linked_id
updateContactPrecedence(row, precedence, linkedID) ==
    [row EXCEPT !.linkPrecedence = precedence, !.linkedID = linkedID]

\* reconcilePrimaryStatus with UPDATEs that reach every row of the table.
reconcilePrimaryStatus_AllRows(store, snap, list, primaryID) ==
    [i \in IDs(store) |->
        IF i = primaryID
        THEN updateContactPrecedence(store[i], "primary", NilID)
        ELSE updateContactPrecedence(store[i], "secondary", primaryID)]

\* reconcilePrimaryStatus: the table after its updates.
reconcilePrimaryStatus(store, snap, list, primaryID) ==
    LET writes == reconcileWrites(snap, list, primaryID)
    IN  [i \in IDs(store) |->
            IF i \notin writes THEN store[i]
            ELSE IF i = primaryID
                 THEN updateContactPrecedence(store[i], "primary", NilID)
                 ELSE updateContactPrecedence(store[i], "secondary", primaryID)]

\* All sequences listing each element of S once.
Orderings(S) ==
    {f \in [1..Cardinality(S) -> S] : \A x \in S : \E i \in DOMAIN f : f[i] = x}

\* The second loop of buildResponse without the comparison against the
\* primary's value.
collectUnique_KeepPrimary(values, primaryValue) ==
    {v \in values : v # Nil /\ v # Empty}

\* The second loop of buildResponse (emailSet, phoneSet): the non-empty
\* values of the fetched rows that differ from the primary's.
collectUnique(values, primaryValue) ==
    {v \in values : v # Nil /\ v # Empty /\ v # primaryValue}

\* buildResponse: the set of responses the call may return. The rows come
\* back in an order the query does not fix, and the distinct values of the
\* other rows are appended in map-iteration order.
buildResponse(store, primaryID) ==
    LET allContacts  == getAllLinkedContacts(store, primaryID)
        primaryEmail == IF store[primaryID].email # Nil
                        THEN store[primaryID].email ELSE Empty
        primaryPhone == IF store[primaryID].phoneNumber # Nil
                        THEN store[primaryID].phoneNumber ELSE Empty
        emailSet == collectUnique({store[i].email : i \in allContacts},
                                  primaryEmail)
        phoneSet == collectUnique({store[i].phoneNumber : i \in allContacts},
                                  primaryPhone)
        firstEmail == IF primaryEmail # Empty THEN <<primaryEmail>> ELSE <<>>
        firstPhone == IF primaryPhone # Empty THEN <<primaryPhone>> ELSE <<>>
    IN  {[primaryContatctId   |-> primaryID,
          emails              |-> firstEmail \o es,
          phoneNumbers        |-> firstPhone \o ps,
          secondaryContactIds |-> ids] :
            es \in Orderings(emailSet),
            ps \in Orderings(phoneSet),
            ids \in Orderings(allContacts \ {primaryID})}

(* ---------------------------------------------------------------------- *)
(* Operations                                                              *)
(* ---------------------------------------------------------------------- *)

NoRequest == [email |-> Nil, phoneNumber |-> Nil]

\* The observation record of one handled request.
Outcome(status, req, touched, primaryID, created, writes, resps) ==
    [status    |-> status,      \* "none", "ok" (200) or "badRequest" (400)
     req       |-> req,
     touched   |-> touched,     \* ids of linkedContacts
     primaryID |-> primaryID,   \* primaryContact.ID
     created   |-> created,     \* id of the row inserted, NilID if none
     writes    |-> writes,      \* ids of the rows updated
     resps     |-> resps,       \* the responses the call may have returned
     repeat    |-> last.status = "ok" /\ last.req = req]

\* The callers that may have a request in progress at the same time.
Callers == {1, 2}

\* A caller with no request in progress. contactMap, allLinkedIDs: the
\* locals of findLinkedContacts; primaryID: primaryContact.ID; created: the
\* id of the row this call inserted; pending, written: the rows
\* reconcilePrimaryStatus has still to update and has updated; retry:
\* the request repeats the one that failed just before; expect: the
\* tables a run of the first attempt without failure would have left.
IdleCall ==
    [pc |-> "idle", status |-> "none", req |-> NoRequest,
     contactMap |-> <<>>, allLinkedIDs |-> {},
     primaryID |-> NilID, created |-> NilID,
     pending |-> {}, written |-> {},
     retry |-> FALSE, expect |-> {}]

Init ==
    /\ contacts = <<>>
    /\ clock = 0
    /\ calls = [c \in Callers |-> IdleCall]
    /\ last = [status |-> "none", req |-> NoRequest,
               touched |-> {}, primaryID |-> NilID, created |-> NilID,
               writes |-> {}, resps |-> {}, repeat |-> FALSE]

\* The validation of Handle testing for nil only.
InvalidRequest_NilOnly(req) ==
    req.email = Nil /\ req.phoneNumber = Nil

\* IdentifyHandler.Handle, validation: neither field given.
InvalidRequest(req) ==
    /\ (req.email = Nil \/ req.email = Empty)
    /\ (req.phoneNumber = Nil \/ req.phoneNumber = Empty)

\* Handle, 400 branch: the service is not called.
HandleBadRequest(req) ==
    /\ InvalidRequest(req)
    /\ last' = Outcome("badRequest", req, {}, NilID, NilID, {}, {})
    /\ UNCHANGED <<contacts, clock, calls>>

\* Identify, branch len(linkedContacts) == 0. ticks: by how much the clock
\* may have advanced since the last INSERT when this one reads it.
IdentifyCreatePrimary(req, ticks) ==
    /\ ~InvalidRequest(req)
    /\ findLinkedContacts(contacts, req.email, req.phoneNumber) = {}
    /\ Len(contacts) < MaxContacts
    /\ UNCHANGED calls
    /\ \E d \in ticks :
         LET now    == clock + d
             store1 == createPrimaryContact(contacts, req.email, req.phoneNumber, now)
             id     == Len(store1)
         IN  /\ contacts' = store1
             /\ clock' = now
             /\ last' = Outcome("ok", req, {}, id, id, {},
                                 buildResponse(store1, id))

\* Identify, branch len(linkedContacts) > 0.
IdentifyExisting(req, ticks) ==
    /\ ~InvalidRequest(req)
    /\ LET linkedContacts == findLinkedContacts(contacts, req.email, req.phoneNumber)
           hasNewInfo     == hasNewInformation(contacts, linkedContacts,
                                               req.email, req.phoneNumber)
       IN  /\ linkedContacts # {}
           /\ hasNewInfo => Len(contacts) < MaxContacts
           /\ UNCHANGED calls
           /\ \E primaryID \in findOldestContact(contacts, linkedContacts) :
              \E d \in (IF hasNewInfo THEN ticks ELSE {0}) :
                LET now    == clock + d
                    store1 == IF hasNewInfo
                              THEN createSecondaryContact(contacts, req.email,
                                       req.phoneNumber, primaryID, now)
                              ELSE contacts
                    store2 == reconcilePrimaryStatus(store1, contacts,
                                                     linkedContacts, primaryID)
                IN  /\ contacts' = store2
                    /\ clock' = now
                    /\ last' = Outcome("ok", req, linkedContacts, primaryID,
                                IF hasNewInfo THEN Len(store1) ELSE NilID,
                                reconcileWrites(contacts, linkedContacts, primaryID),
                                buildResponse(store2, primaryID))

\* Completed calls, one after the other: each INSERT reads the clock later
\* than the one before it.
Later == {1}

Next ==
    \E req \in Requests :
        \/ HandleBadRequest(req)
        \/ IdentifyCreatePrimary(req, Later)
        \/ IdentifyExisting(req, Later)

Spec == Init /\ [][Next]_vars

\* Calls one after the other on a clock too coarse to tell two INSERTs
\* apart every time: an INSERT may read the same instant as the one before.
SameOrLater == {0, 1}

\* The requests over one phone value.
OnePhoneRequests == [email : EmailValues, phoneNumber : {Nil, "p1"}]

NextTies ==
    \E req \in OnePhoneRequests :
        \/ HandleBadRequest(req)
        \/ IdentifyCreatePrimary(req, SameOrLater)
        \/ IdentifyExisting(req, SameOrLater)

SpecTies == Init /\ [][NextTies]_vars

(* ---------------------------------------------------------------------- *)
(* Identify, one store statement at a time                                 *)
(* ---------------------------------------------------------------------- *)

\* The columns of the table that say who is linked to whom (created_at
\* left out).
Linkage(store) ==
    [i \in IDs(store) |->
        [email |-> store[i].email, phoneNumber |-> store[i].phoneNumber,
         linkedID |-> store[i].linkedID,
         linkPrecedence |-> store[i].linkPrecedence]]

\* Handle and Identify run without interruption and without failure on the
\* table store: the tables they may leave.
IdentifyTables(store, req, now) ==
    IF InvalidRequest(req) THEN {store}
    ELSE LET linkedContacts == findLinkedContacts(store, req.email, req.phoneNumber)
             hasNewInfo     == hasNewInformation(store, linkedContacts,
                                                 req.email, req.phoneNumber)
         IN  IF linkedContacts = {}
             THEN {createPrimaryContact(store, req.email, req.phoneNumber, now)}
             ELSE {reconcilePrimaryStatus(
                      IF hasNewInfo
                      THEN createSecondaryContact(store, req.email,
                               req.phoneNumber, primaryID, now)
                      ELSE store,
                      store, linkedContacts, primaryID) :
                   primaryID \in findOldestContact(store, linkedContacts)}

\* contactMap[c.ID] = c for the rows ids as the table holds them now.
readInto(contactMap, store, ids) ==
    [i \in (DOMAIN contactMap) \cup ids |->
        IF i \in ids THEN store[i] ELSE contactMap[i]]

\* Identify after findLinkedContacts has returned: the primary is chosen
\* and the updates are decided on the rows as they were read; what is left
\* is the INSERT, the UPDATEs and the response.
AfterDiscovery(c) ==
    LET list == DOMAIN c.contactMap
    IN  IF list = {}
        THEN {[c EXCEPT !.pc = "insertPrimary"]}
        ELSE {LET writes == reconcileWrites(c.contactMap, list, primaryID)
              IN  [c EXCEPT !.primaryID = primaryID,
                            !.pending = writes,
                            !.pc = IF hasNewInformation(c.contactMap, list,
                                          c.req.email, c.req.phoneNumber)
                                   THEN "insertSecondary"
                                   ELSE IF writes = {} THEN "respond"
                                   ELSE "update"] :
              primaryID \in findOldestContact(c.contactMap, list)}

\* findLinkedContacts after the queries by email and by phone: the
\* linked_id values of the rows read are collected and queried one by one.
AfterMatch(c) ==
    LET list == DOMAIN c.contactMap
        ids  == {c.contactMap[i].linkedID :
                    i \in {j \in list : c.contactMap[j].linkedID # NilID}}
    IN  IF ids = {} THEN AfterDiscovery(c)
        ELSE {[c EXCEPT !.allLinkedIDs = ids, !.pc = "linked"]}

\* Handle: a request arrives for caller c, who has none in progress. An
\* invalid request is answered 400 at once. track: the tables a run
\* without failure would leave are noted, and kept when the request
\* repeats the one that has just failed.
HandleRequest(c, req, track) ==
    /\ calls[c].pc \in {"idle", "failed"}
    /\ LET retry == calls[c].status = "error" /\ calls[c].req = req
       IN  calls' = [calls EXCEPT ![c] =
              IF InvalidRequest(req)
              THEN [IdleCall EXCEPT !.status = "badRequest", !.req = req]
              ELSE [IdleCall EXCEPT
                      !.status = "running",
                      !.req = req,
                      !.pc = IF req.email # Nil /\ req.email # Empty
                             THEN "email" ELSE "phone",
                      !.retry = track /\ retry,
                      !.expect = IF ~track THEN {}
                                 ELSE IF retry THEN calls[c].expect
                                 ELSE {Linkage(t) : t \in
                                        IdentifyTables(contacts, req, clock + 1)}]]
    /\ UNCHANGED <<contacts, clock, last>>

\* findLinkedContacts: the query by email.
QueryByEmail(c) ==
    /\ calls[c].pc = "email"
    /\ LET rows == queryContactsByEmail(contacts, calls[c].req.email)
           c1   == [calls[c] EXCEPT
                      !.contactMap = readInto(@, contacts, rows)]
           phone == calls[c].req.phoneNumber
       IN  \E c2 \in (IF phone # Nil /\ phone # Empty
                      THEN {[c1 EXCEPT !.pc = "phone"]}
                      ELSE AfterMatch(c1)) :
              calls' = [calls EXCEPT ![c] = c2]
    /\ UNCHANGED <<contacts, clock, last>>

\* findLinkedContacts: the query by phone number.
QueryByPhoneNumber(c) ==
    /\ calls[c].pc = "phone"
    /\ calls[c].req.phoneNumber # Nil /\ calls[c].req.phoneNumber # Empty
    /\ LET rows == queryContactsByPhoneNumber(contacts, calls[c].req.phoneNumber)
           c1   == [calls[c] EXCEPT
                      !.contactMap = readInto(@, contacts, rows)]
       IN  \E c2 \in AfterMatch(c1) :
              calls' = [calls EXCEPT ![c] = c2]
    /\ UNCHANGED <<contacts, clock, last>>

\* findLinkedContacts: the query for one of the linked_id values, taken in
\* map-iteration order.
QueryByLinkedID(c) ==
    /\ calls[c].pc = "linked"
    /\ \E linkedID \in calls[c].allLinkedIDs :
         LET rows == queryContactsByLinkedID(contacts, linkedID)
             c1   == [calls[c] EXCEPT
                        !.contactMap = readInto(@, contacts, rows),
                        !.allLinkedIDs = @ \ {linkedID}]
         IN  \E c2 \in (IF c1.allLinkedIDs = {}
                        THEN AfterDiscovery(c1) ELSE {c1}) :
                calls' = [calls EXCEPT ![c] = c2]
    /\ UNCHANGED <<contacts, clock, last>>

\* Identify, len(linkedContacts) == 0: the INSERT of createPrimaryContact.
InsertPrimary(c, ticks) ==
    /\ calls[c].pc = "insertPrimary"
    /\ Len(contacts) < MaxContacts
    /\ \E d \in ticks :
         LET now == clock + d
             id  == Len(contacts) + 1
         IN  /\ contacts' = createPrimaryContact(contacts, calls[c].req.email,
                                calls[c].req.phoneNumber, now)
             /\ clock' = now
             /\ calls' = [calls EXCEPT ![c] =
                    [@ EXCEPT !.primaryID = id, !.created = id,
                              !.pc = "respond"]]
    /\ UNCHANGED last

\* Identify, hasNewInfo: the INSERT of createSecondaryContact.
InsertSecondary(c, ticks) ==
    /\ calls[c].pc = "insertSecondary"
    /\ Len(contacts) < MaxContacts
    /\ \E d \in ticks :
         LET now == clock + d
         IN  /\ contacts' = createSecondaryContact(contacts, calls[c].req.email,
                                calls[c].req.phoneNumber, calls[c].primaryID, now)
             /\ clock' = now
             /\ calls' = [calls EXCEPT ![c] =
                    [@ EXCEPT !.created = Len(contacts) + 1,
                              !.pc = IF calls[c].pending = {} THEN "respond"
                                     ELSE "update"]]
    /\ UNCHANGED last

\* The row reconcilePrimaryStatus updates next: the slice was sorted by
\* findOldestContact, so the primary comes first and the others follow by
\* created_at.
nextUpdates(c) ==
    IF c.primaryID \in c.pending THEN {c.primaryID}
    ELSE {i \in c.pending :
            \A j \in c.pending :
                c.contactMap[i].createdAt <= c.contactMap[j].createdAt}

\* reconcilePrimaryStatus: one UPDATE.
UpdatePrecedence(c) ==
    /\ calls[c].pc = "update"
    /\ \E i \in nextUpdates(calls[c]) :
         LET primaryID == calls[c].primaryID
         IN  /\ contacts' = [contacts EXCEPT ![i] =
                    IF i = primaryID
                    THEN updateContactPrecedence(@, "primary", NilID)
                    ELSE updateContactPrecedence(@, "secondary", primaryID)]
             /\ calls' = [calls EXCEPT ![c] =
                    [@ EXCEPT !.pending = @ \ {i},
                              !.written = @ \cup {i},
                              !.pc = IF calls[c].pending = {i}
                                     THEN "respond" ELSE "update"]]
    /\ UNCHANGED <<clock, last>>

\* buildResponse: the query of getAllLinkedContacts; the handler answers 200.
Respond(c) ==
    /\ calls[c].pc = "respond"
    /\ calls' = [calls EXCEPT ![c] = [IdleCall EXCEPT !.status = "ok"]]
    /\ UNCHANGED <<contacts, clock, last>>

\* The statement the call is about to run fails without effect, continuing
\* all the same.
StorageFailure_Continue(c) ==
    /\ calls[c].status = "running"
    /\ calls[c].pc \in {"insertPrimary", "insertSecondary", "update"}
    /\ calls' = [calls EXCEPT ![c] = [@ EXCEPT !.status = "error"]]
    /\ UNCHANGED <<contacts, clock, last>>

\* The statement the call is about to run fails without effect: every
\* error path of Identify returns at once, and the handler answers 500.
StorageFailure(c) ==
    /\ calls[c].status = "running"
    /\ calls[c].pc \in {"email", "phone", "linked", "insertPrimary",
                        "insertSecondary", "update", "respond"}
    /\ calls' = [calls EXCEPT ![c] = [@ EXCEPT !.pc = "failed",
                                               !.status = "error"]]
    /\ UNCHANGED <<contacts, clock, last>>

\* The requests sent where statements may fail: one phone value, and the
\* bodies with neither field usable.
FailRequests ==
    OnePhoneRequests
    \cup {[email |-> Empty, phoneNumber |-> Empty],
          [email |-> Empty, phoneNumber |-> Nil],
          [email |-> Nil, phoneNumber |-> Empty]}

\* One caller whose statements may fail; after a failure the caller sends
\* any request, the same one included.
NextFail ==
    \/ \E req \in FailRequests : HandleRequest(1, req, TRUE)
    \/ QueryByEmail(1)
    \/ QueryByPhoneNumber(1)
    \/ QueryByLinkedID(1)
    \/ InsertPrimary(1, Later)
    \/ InsertSecondary(1, Later)
    \/ UpdatePrecedence(1)
    \/ Respond(1)
    \/ StorageFailure(1)

SpecFail == Init /\ [][NextFail]_vars

\* No caller has a request in progress.
NoCallInProgress == \A c \in Callers : calls[c].pc = "idle"

\* The valid requests over one email value and one phone value.
RaceRequests ==
    {req \in [email : {Nil, "e1"}, phoneNumber : {Nil, "p1"}] :
        ~InvalidRequest(req)}

\* Two callers whose requests overlap: each sends one request, and the
\* statements of the two calls interleave in any order, each statement on
\* its own (no transaction, no lock); two INSERTs may read the same
\* instant. Before and after, while nobody has a request in progress,
\* requests are served alone, from the first statement to the response.
NextRace ==
    \/ \E c \in Callers :
         \/ /\ calls[c].status = "none"
            /\ \E req \in RaceRequests : HandleRequest(c, req, FALSE)
         \/ QueryByEmail(c)
         \/ QueryByPhoneNumber(c)
         \/ QueryByLinkedID(c)
         \/ InsertPrimary(c, SameOrLater)
         \/ InsertSecondary(c, SameOrLater)
         \/ UpdatePrecedence(c)
         \/ Respond(c)
    \/ /\ NoCallInProgress
       /\ \E req \in RaceRequests :
            \/ IdentifyCreatePrimary(req, Later)
            \/ IdentifyExisting(req, Later)

SpecRace == Init /\ [][NextRace]_vars

\* The same two callers on a clock too coarse to tell two INSERTs apart
\* every time, whether the calls overlap or not: rows with equal
\* created_at may be in the table before the two requests overlap.
NextRaceTies ==
    \/ \E c \in Callers :
         \/ /\ calls[c].status = "none"
            /\ \E req \in RaceRequests : HandleRequest(c, req, FALSE)
         \/ QueryByEmail(c)
         \/ QueryByPhoneNumber(c)
         \/ QueryByLinkedID(c)
         \/ InsertPrimary(c, SameOrLater)
         \/ InsertSecondary(c, SameOrLater)
         \/ UpdatePrecedence(c)
         \/ Respond(c)
    \/ /\ NoCallInProgress
       /\ \E req \in RaceRequests :
            \/ IdentifyCreatePrimary(req, SameOrLater)
            \/ IdentifyExisting(req, SameOrLater)

SpecRaceTies == Init /\ [][NextRaceTies]_vars

(* ---------------------------------------------------------------------- *)
(* Vocabulary of the properties                                            *)
(* ---------------------------------------------------------------------- *)

\* A request field that carries a value.
Supplied(v) == v # Nil /\ v # Empty

Range(seq) == {seq[k] : k \in DOMAIN seq}

NoDuplicates(seq) == \A a, b \in DOMAIN seq : seq[a] = seq[b] => a = b

\* Two rows one of which references the other.
Linked(store, i, j) == store[i].linkedID = j \/ store[j].linkedID = i

\* The identity group(s) of the rows S: everything connected to them
\* through linkedId references, in either direction.
RECURSIVE GroupOf(_, _)
GroupOf(store, S) ==
    LET T == S \cup {j \in IDs(store) : \E i \in S : Linked(store, i, j)}
    IN  IF T = S THEN S ELSE GroupOf(store, T)

IsPrimary(row) == row.linkPrecedence = "primary" /\ row.linkedID = NilID

IsSecondaryOf(row, p) == row.linkPrecedence = "secondary" /\ row.linkedID = p

\* A row and the rows whose linkedId is its id.
WithSecondaries(store, p) == {p} \cup {i \in IDs(store) : store[i].linkedID = p}

\* The primaries of a set of rows.
PrimariesOf(store, g) == {i \in g : IsPrimary(store[i])}

\* A member of g no member of g is older than.
IsOldestOf(store, i, g) ==
    i \in g /\ \A j \in g : store[i].createdAt <= store[j].createdAt

\* The step just taken was a call of Identify that returned a response;
\* last' describes it, contacts is the table it found, contacts' the
\* table it left.
Identified == last'.status = "ok" /\ last'.resps # {}

\* The rows of the table the call found that carry the request's email or
\* phone, and the group(s) they belong to.
RequestRows ==
    {i \in IDs(contacts) :
        \/ Supplied(last'.req.email) /\ contacts[i].email = last'.req.email
        \/ Supplied(last'.req.phoneNumber)
              /\ contacts[i].phoneNumber = last'.req.phoneNumber}

RequestGroup == GroupOf(contacts, RequestRows)

(* ---------------------------------------------------------------------- *)
(* C1                                                                      *)
(* ---------------------------------------------------------------------- *)

\* C1: in every state reached by completed Identify calls from the empty
\* table, every identity group has exactly one row that is primary with
\* linkedId null, and every other row of the group is secondary with
\* linkedId equal to that primary's id.
C1_SinglePrimary ==
    \A i \in IDs(contacts) :
        LET g == GroupOf(contacts, {i})
        IN  \E p \in g :
              /\ IsPrimary(contacts[p])
              /\ \A j \in g \ {p} : IsSecondaryOf(contacts[j], p)

(* ---------------------------------------------------------------------- *)
(* C2                                                                      *)
(* ---------------------------------------------------------------------- *)

\* C2: when A and B are primaries of different groups, A older than B, and
\* the secondaries of B carry neither A's email nor B's phone, the call
\* Identify(A.email, B.phone) leaves B secondary with linkedId = A.id and
\* every row that was a secondary of B with linkedId = A.id.
C2_MergeSymmetry ==
    [][\A a, b \in IDs(contacts) :
        (/\ Identified
         /\ IsPrimary(contacts[a]) /\ IsPrimary(contacts[b])
         /\ contacts[a].createdAt < contacts[b].createdAt
         /\ Supplied(contacts[a].email) /\ Supplied(contacts[b].phoneNumber)
         /\ last'.req = [email |-> contacts[a].email,
                         phoneNumber |-> contacts[b].phoneNumber]
         /\ RequestRows = {a, b}
         /\ GroupOf(contacts, {a}) = WithSecondaries(contacts, a)
         /\ GroupOf(contacts, {b}) = WithSecondaries(contacts, b))
        => /\ IsSecondaryOf(contacts'[b], a)
           /\ \A s \in IDs(contacts) :
                contacts[s].linkedID = b => contacts'[s].linkedID = a]_vars

(* ---------------------------------------------------------------------- *)
(* C3                                                                      *)
(* ---------------------------------------------------------------------- *)

\* C3: after every completed Identify call the primary of every identity
\* group is a member of the group no other member is older than, and the
\* primaryContatctId the call returns is the oldest row of the group the
\* request belongs to (the group of the rows carrying its email or phone
\* when the call arrived, together with the row the call inserted).
C3_PrimaryIsOldest ==
    [][Identified =>
        /\ \A i \in IDs(contacts') :
             LET g == GroupOf(contacts', {i})
             IN  \A p \in PrimariesOf(contacts', g) : IsOldestOf(contacts', p, g)
        /\ LET g == RequestGroup \cup
                    (IF last'.created # NilID THEN {last'.created} ELSE {})
           IN  \A resp \in last'.resps :
                 IsOldestOf(contacts', resp.primaryContatctId, g)]_vars

(* ---------------------------------------------------------------------- *)
(* C4                                                                      *)
(* ---------------------------------------------------------------------- *)

\* C4: when P1 is the primary that Identify(email=e) created (email e, no
\* phone) and P2 the primary that a later Identify(phone=p) created (phone
\* p, no email), the call Identify(e, p) inserts no row, leaves P1 primary
\* with linkedId null, leaves P2 secondary with linkedId = P1.id, and
\* returns primaryContatctId = P1.id with P2.id in secondaryContactIds.
C4_MergeTwoPrimaries ==
    [][\A p1, p2 \in IDs(contacts) :
        (/\ Identified
         /\ Supplied(last'.req.email) /\ Supplied(last'.req.phoneNumber)
         /\ IsPrimary(contacts[p1]) /\ IsPrimary(contacts[p2])
         /\ contacts[p1].email = last'.req.email
         /\ contacts[p1].phoneNumber = Nil
         /\ contacts[p2].email = Nil
         /\ contacts[p2].phoneNumber = last'.req.phoneNumber
         /\ contacts[p1].createdAt < contacts[p2].createdAt)
        => /\ Len(contacts') = Len(contacts)
           /\ IsPrimary(contacts'[p1])
           /\ IsSecondaryOf(contacts'[p2], p1)
           /\ \A resp \in last'.resps :
                /\ resp.primaryContatctId = p1
                /\ p2 \in Range(resp.secondaryContactIds)]_vars

\* C4 happened: the last call was Identify(e, p), and it demoted a row
\* holding only the phone p under a row holding only the email e.
C4_Witness ==
    /\ last.status = "ok"
    /\ Supplied(last.req.email) /\ Supplied(last.req.phoneNumber)
    /\ \E p1, p2 \in IDs(contacts) :
         /\ contacts[p1] = Contact(last.req.email, Nil, NilID, "primary",
                                   contacts[p1].createdAt)
         /\ contacts[p2] = Contact(Nil, last.req.phoneNumber, p1, "secondary",
                                   contacts[p2].createdAt)
         /\ p2 \in last.writes
         /\ \E resp \in last.resps : resp.primaryContatctId = p1

(* ---------------------------------------------------------------------- *)
(* C5                                                                      *)
(* ---------------------------------------------------------------------- *)

\* C5: when the request's rows belong to one group with primary p and the
\* request's email, or its phone, is on no row of that group, the call
\* inserts exactly one row, secondary, carrying the request's email and
\* phone, with linkedId = p; p stays primary; the response names p as
\* primaryContatctId and lists the new row's id in secondaryContactIds.
C5_NewInformation ==
    [][\A p \in IDs(contacts) :
        (/\ Identified
         /\ RequestRows # {}
         /\ PrimariesOf(contacts, RequestGroup) = {p}
         /\ \/ /\ Supplied(last'.req.email)
               /\ \A i \in RequestGroup : contacts[i].email # last'.req.email
            \/ /\ Supplied(last'.req.phoneNumber)
               /\ \A i \in RequestGroup :
                    contacts[i].phoneNumber # last'.req.phoneNumber)
        => /\ Len(contacts') = Len(contacts) + 1
           /\ LET new == Len(contacts')
              IN  /\ contacts'[new].email = last'.req.email
                  /\ contacts'[new].phoneNumber = last'.req.phoneNumber
                  /\ IsSecondaryOf(contacts'[new], p)
                  /\ \A resp \in last'.resps :
                       /\ resp.primaryContatctId = p
                       /\ new \in Range(resp.secondaryContactIds)
           /\ IsPrimary(contacts'[p])]_vars

(* ---------------------------------------------------------------------- *)
(* C6                                                                      *)
(* ---------------------------------------------------------------------- *)

\* C6: when the request matches some row and every value it supplies (its
\* email when given, its phone when given) is on some row of the matched
\* group, the call inserts no row: the table has as many rows after the
\* call as before.
C6_NoNewInformationNoOp ==
    [][(/\ Identified
        /\ RequestRows # {}
        /\ LET g == RequestGroup
           IN  /\ Supplied(last'.req.email) =>
                    \E i \in g : contacts[i].email = last'.req.email
               /\ Supplied(last'.req.phoneNumber) =>
                    \E i \in g : contacts[i].phoneNumber = last'.req.phoneNumber)
       => Len(contacts') = Len(contacts)]_vars

\* C6 happened: a call supplying an email and a phone that no single row
\* carries together returned without inserting.
C6_Witness ==
    /\ last.status = "ok"
    /\ last.created = NilID
    /\ Supplied(last.req.email) /\ Supplied(last.req.phoneNumber)
    /\ last.touched # {}
    /\ \A i \in IDs(contacts) :
         ~(contacts[i].email = last.req.email
           /\ contacts[i].phoneNumber = last.req.phoneNumber)

(* ---------------------------------------------------------------------- *)
(* C7                                                                      *)
(* ---------------------------------------------------------------------- *)

\* C7: when no row has the request's email or phone, the call inserts
\* exactly one row, primary with linkedId null and the request's email and
\* phone, changes no other row, and returns the new row's id as
\* primaryContatctId, emails and phoneNumbers holding exactly the supplied
\* values, and no secondaryContactIds.
C7_FirstSighting ==
    [][(Identified /\ RequestRows = {})
       => /\ Len(contacts') = Len(contacts) + 1
          /\ \A i \in IDs(contacts) : contacts'[i] = contacts[i]
          /\ LET new == Len(contacts')
             IN  /\ contacts'[new].email = last'.req.email
                 /\ contacts'[new].phoneNumber = last'.req.phoneNumber
                 /\ IsPrimary(contacts'[new])
                 /\ \A resp \in last'.resps :
                      /\ resp.primaryContatctId = new
                      /\ resp.emails =
                           (IF Supplied(last'.req.email)
                               THEN <<last'.req.email>> ELSE <<>>)
                      /\ resp.phoneNumbers =
                           (IF Supplied(last'.req.phoneNumber)
                               THEN <<last'.req.phoneNumber>> ELSE <<>>)
                      /\ resp.secondaryContactIds = <<>>]_vars

\* C7 happened: the last call inserted a primary into a table that already
\* held rows, one of them a secondary.
C7_Witness ==
    /\ last.status = "ok"
    /\ last.touched = {}
    /\ last.created = Len(contacts)
    /\ Len(contacts) >= 3
    /\ \E i \in IDs(contacts) : contacts[i].linkPrecedence = "secondary"

(* ---------------------------------------------------------------------- *)
(* C8                                                                      *)
(* ---------------------------------------------------------------------- *)

ProjectedFrom(seq, primaryValue, otherValues) ==
    LET rest == {v \in otherValues : Supplied(v) /\ v # primaryValue}
    IN  /\ NoDuplicates(seq)
        /\ IF Supplied(primaryValue)
           THEN /\ Len(seq) >= 1
                /\ seq[1] = primaryValue
                /\ Range(Tail(seq)) = rest
           ELSE Range(seq) = rest

\* C9: in every response, the primary row's email is the first element of
\* emails when it is non-empty and is left out when null or empty, the
\* remaining elements are the distinct non-empty emails of the other rows
\* of the response (the rows whose linkedId is the primary's id), and no
\* value occurs twice; likewise for phoneNumbers.
C9_ProjectionOrder ==
    last.status = "ok" =>
        /\ last.resps # {}
        /\ \A resp \in last.resps :
             LET p      == resp.primaryContatctId
                 others == {i \in IDs(contacts) :
                               i # p /\ contacts[i].linkedID = p}
             IN  /\ ProjectedFrom(resp.emails, contacts[p].email,
                                  {contacts[i].email : i \in others})
                 /\ ProjectedFrom(resp.phoneNumbers, contacts[p].phoneNumber,
                                  {contacts[i].phoneNumber : i \in others})

\* C9 happened: a response whose primary has the empty string for email
\* and shares its phone with two secondaries that carry different emails:
\* emails starts with a secondary's email, phoneNumbers holds the phone once.
C9_Witness ==
    /\ last.status = "ok"
    /\ \E resp \in last.resps :
         LET p == resp.primaryContatctId
         IN  /\ contacts[p].email = Empty
             /\ Len(resp.secondaryContactIds) = 2
             /\ \A k \in DOMAIN resp.secondaryContactIds :
                  contacts[resp.secondaryContactIds[k]].phoneNumber
                      = contacts[p].phoneNumber
             /\ Len(resp.emails) = 2
             /\ resp.phoneNumbers = <<contacts[p].phoneNumber>>

(* ---------------------------------------------------------------------- *)
(* C10                                                                     *)
(* ---------------------------------------------------------------------- *)

\* C10: when a call Identify(e, p) has completed and the next call is the
\* same Identify(e, p), the second call updates no row, and every row has
\* the same precedence and linkedId after it as before it.
C10_RepeatWritesNothing ==
    [][(Identified /\ last'.repeat)
       => /\ last'.writes = {}
          /\ \A i \in IDs(contacts) :
               /\ contacts'[i].linkPrecedence = contacts[i].linkPrecedence
               /\ contacts'[i].linkedID = contacts[i].linkedID]_vars

(* ---------------------------------------------------------------------- *)
(* C15                                                                     *)
(* ---------------------------------------------------------------------- *)

\* C15: the touched set of a call contains every row carrying the request's
\* email or phone and, for every linkedId found on one of those rows, the
\* row whose id is that linkedId together with every row whose linkedId is
\* that linkedId.
C15_DiscoveryClosure ==
    [][Identified =>
        /\ RequestRows # {} => RequestRows \subseteq last'.touched
        /\ \A i \in RequestRows :
             contacts[i].linkedID # NilID =>
                WithSecondaries(contacts, contacts[i].linkedID)
                    \subseteq last'.touched]_vars

(* ---------------------------------------------------------------------- *)
(* C16                                                                     *)
(* ---------------------------------------------------------------------- *)

\* C16: no step changes a row that is secondary into a primary (so a row
\* created as secondary is never primary).
C16_NeverPromoted ==
    [][\A i \in IDs(contacts) :
         contacts[i].linkPrecedence = "secondary"
            => contacts'[i].linkPrecedence = "secondary"]_vars

(* ---------------------------------------------------------------------- *)
(* C18                                                                     *)
(* ---------------------------------------------------------------------- *)

\* The identity groups the rows S belong to.
GroupsOf(store, S) == {GroupOf(store, {i}) : i \in S}

\* Rows with the same email are in one group, and so are rows with the
\* same phone.
OneGroupPerValue(store) ==
    \A i, j \in IDs(store) :
        (\/ Supplied(store[i].email) /\ store[i].email = store[j].email
         \/ Supplied(store[i].phoneNumber)
               /\ store[i].phoneNumber = store[j].phoneNumber)
        => GroupOf(store, {i}) = GroupOf(store, {j})

\* C18: the touched set of every call spans at most two identity groups of
\* the table the call found, and in the table a completed call leaves all
\* rows sharing an email are in one group and all rows sharing a phone are
\* in one group.
C18_AtMostTwoGroups ==
    [][Identified =>
        /\ Cardinality(GroupsOf(contacts, last'.touched)) <= 2
        /\ OneGroupPerValue(contacts')]_vars

(* ---------------------------------------------------------------------- *)
(* C20                                                                     *)
(* ---------------------------------------------------------------------- *)

\* C20: when a completed call found at least one row, then at its return
\* the row it selected as primary is primary with linkedId null, and every
\* other row of its touched set is secondary with linkedId equal to that
\* row's id.
C20_NormalizedTouchedSet ==
    (last.status = "ok" /\ last.touched # {}) =>
        /\ last.primaryID \in last.touched
        /\ IsPrimary(contacts[last.primaryID])
        /\ \A i \in last.touched \ {last.primaryID} :
             IsSecondaryOf(contacts[i], last.primaryID)

\* C20 happened: the call Identify(e1, p1) found the primary (e1, null),
\* the younger primary (null, p1) and the secondary (e2, p1) created under
\* the latter, and re-linked both to the first.
C20_Witness ==
    /\ last.status = "ok"
    /\ last.req = [email |-> "e1", phoneNumber |-> "p1"]
    /\ Len(contacts) = 3
    /\ contacts[1].email = "e1" /\ contacts[1].phoneNumber = Nil
    /\ contacts[2].email = Nil /\ contacts[2].phoneNumber = "p1"
    /\ contacts[3].email = "e2" /\ contacts[3].phoneNumber = "p1"
    /\ last.touched = {1, 2, 3}
    /\ last.writes = {2, 3}
    /\ last.primaryID = 1

(* ---------------------------------------------------------------------- *)
(* C17                                                                     *)
(* ---------------------------------------------------------------------- *)

\* C17: the row a call selects as primary is the row of its touched set
\* with the earliest createdAt, and among several rows with that createdAt
\* the one with the smallest id.
C17_DeterministicPrimary ==
    (last.status = "ok" /\ last.touched # {}) =>
        /\ IsOldestOf(contacts, last.primaryID, last.touched)
        /\ \A j \in last.touched :
             contacts[j].createdAt = contacts[last.primaryID].createdAt
                => last.primaryID <= j

(* ---------------------------------------------------------------------- *)
(* C12                                                                     *)
(* ---------------------------------------------------------------------- *)

\* The rows g form one well-formed group: one of them is primary with
\* linkedId null and all the others are secondaries linked to it.
WellFormedGroup(store, g) ==
    \E p \in g :
        /\ IsPrimary(store[p])
        /\ \A j \in g \ {p} : IsSecondaryOf(store[j], p)

\* Caller c's request returns its response in this step.
Returns(c) == calls[c].pc = "respond" /\ calls'[c].status = "ok"

\* The rows the returning call of caller c has read or inserted.
TouchedBy(c) ==
    (DOMAIN calls[c].contactMap) \cup {calls[c].primaryID}
    \cup (IF calls[c].created # NilID THEN {calls[c].created} ELSE {})

\* C12: when a call Identify(e, p) was aborted by a failing statement and
\* the same Identify(e, p) is sent again and completes, the table it leaves
\* has the precedence and linkedId values a run of the first call without
\* failure would have left, and the group of the rows it touched has one
\* primary with all other rows linked to it.
C12_RetrySelfHeals ==
    [][\A c \in Callers :
        (Returns(c) /\ calls[c].retry)
        => /\ Linkage(contacts') \in calls[c].expect
           /\ WellFormedGroup(contacts', GroupOf(contacts', TouchedBy(c)))]_vars

(* ---------------------------------------------------------------------- *)
(* C13                                                                     *)
(* ---------------------------------------------------------------------- *)

\* C13: a failing statement ends the call with an error and no response
\* and leaves the table as the statements before it left it; once the call
\* has failed it runs no further statement, and nothing happens for that
\* caller until the caller sends a new request.
C13_FailureAborts ==
    [][\A c \in Callers :
        /\ (calls[c].status = "running" /\ calls'[c].status = "error")
           => /\ calls'[c].pc = "failed"
              /\ contacts' = contacts
              /\ calls'[c].written = calls[c].written
              /\ calls'[c].created = calls[c].created
        /\ calls[c].status = "error"
           => /\ contacts' = contacts
              /\ \/ calls'[c] = calls[c]
                 \/ calls'[c].status \in {"running", "badRequest"}
                      /\ calls'[c].written = {}
                      /\ calls'[c].created = NilID]_vars

\* C13 happened: a call failed after it had updated one row and before it
\* updated another, and the update it made is in the table.
C13_Witness ==
    \E c \in Callers :
        /\ calls[c].pc = "failed"
        /\ calls[c].written # {}
        /\ calls[c].pending # {}
        /\ \A i \in calls[c].written :
             IsSecondaryOf(contacts[i], calls[c].primaryID)
        /\ \A i \in calls[c].pending :
             ~IsSecondaryOf(contacts[i], calls[c].primaryID)

(* ---------------------------------------------------------------------- *)
(* C14                                                                     *)
(* ---------------------------------------------------------------------- *)

\* Neither field of the request carries a value.
NeitherSupplied(req) == ~Supplied(req.email) /\ ~Supplied(req.phoneNumber)

\* C14: a request whose email is absent or empty and whose phone is absent
\* or empty is answered 400 without one statement being sent to the store:
\* the table is unchanged, nothing runs for the request afterwards, and no
\* row with neither email nor phone is ever in the table.
C14_InvalidInputRejected ==
    [][/\ \A c \in Callers :
            /\ (calls[c].pc \in {"idle", "failed"} /\ calls'[c] # calls[c]
                   /\ NeitherSupplied(calls'[c].req))
               => /\ calls'[c].status = "badRequest"
                  /\ calls'[c].pc = "idle"
                  /\ contacts' = contacts
            /\ calls[c].status = "badRequest"
               => /\ contacts' = contacts
                  /\ calls'[c] = calls[c] \/ calls[c].pc = "idle"
       /\ \A i \in IDs(contacts') :
            Supplied(contacts'[i].email) \/ Supplied(contacts'[i].phoneNumber)]_vars

\* C14 happened: the request with both fields empty strings was answered
\* 400 while the table held rows.
C14_Witness ==
    \E c \in Callers :
        /\ calls[c].status = "badRequest"
        /\ calls[c].req = [email |-> Empty, phoneNumber |-> Empty]
        /\ Len(contacts) >= 2

(* ---------------------------------------------------------------------- *)
(* C11                                                                     *)
(* ---------------------------------------------------------------------- *)

\* The step just taken was a call of Identify served alone, after the two
\* overlapping calls had both returned.
IdentifiedAfterOverlap ==
    /\ Identified
    /\ calls' = calls
    /\ \A c \in Callers : calls[c].pc = "idle" /\ calls[c].status = "ok"

\* C11: once the overlapping calls have all returned, a call served alone
\* leaves the group of the rows it touched with exactly one primary
\* (linkedId null) and every other row secondary and linked to it.
C11_ConvergesAfterOverlap ==
    [][IdentifiedAfterOverlap =>
        WellFormedGroup(contacts',
            GroupOf(contacts', last'.touched \cup {last'.primaryID}))]_vars

(* ---------------------------------------------------------------------- *)
(* C19                                                                     *)
(* ---------------------------------------------------------------------- *)

\* C19: when the table holds two primaries with the same email (as two
\* overlapping calls with an email seen by neither leave it), a call with
\* that email served alone leaves one of the two primary and the other
\* secondary with linkedId equal to the first one's id.
C19_DuplicatePrimaryRepaired ==
    [][\A a, b \in IDs(contacts) :
        (/\ Identified /\ calls' = calls
         /\ a # b
         /\ Supplied(last'.req.email)
         /\ contacts[a].email = last'.req.email
         /\ contacts[b].email = last'.req.email
         /\ IsPrimary(contacts[a]) /\ IsPrimary(contacts[b]))
        => \/ IsPrimary(contacts'[a]) /\ IsSecondaryOf(contacts'[b], a)
           \/ IsPrimary(contacts'[b]) /\ IsSecondaryOf(contacts'[a], b)]_vars

\* C19, amended: such a call leaves one of the two primary and the other
\* secondary linked to it, or, when its touched set holds a third row at
\* least as old as both, leaves that row primary and both of them
\* secondary with linkedId equal to that row's id.
C19_DuplicatePrimaryMerged ==
    [][\A a, b \in IDs(contacts) :
        (/\ Identified /\ calls' = calls
         /\ a # b
         /\ Supplied(last'.req.email)
         /\ contacts[a].email = last'.req.email
         /\ contacts[b].email = last'.req.email
         /\ IsPrimary(contacts[a]) /\ IsPrimary(contacts[b]))
        => \/ IsPrimary(contacts'[a]) /\ IsSecondaryOf(contacts'[b], a)
           \/ IsPrimary(contacts'[b]) /\ IsSecondaryOf(contacts'[a], b)
           \/ \E p \in last'.touched \ {a, b} :
                /\ contacts[p].createdAt <= contacts[a].createdAt
                /\ contacts[p].createdAt <= contacts[b].createdAt
                /\ IsPrimary(contacts'[p])
                /\ IsSecondaryOf(contacts'[a], p)
                /\ IsSecondaryOf(contacts'[b], p)]_vars

\* C19 happened: the table holds two rows with the same email and the same
\* phone, which only two overlapping calls that both found no match can
\* have inserted, and the call with that email served alone has just made
\* one of them secondary of the other.
C19_Witness ==
    /\ last.status = "ok"
    /\ Supplied(last.req.email)
    /\ last.touched = {1, 2}
    /\ Len(contacts) = 2
    /\ contacts[1].email = last.req.email
    /\ contacts[2].email = last.req.email
    /\ contacts[1].phoneNumber = contacts[2].phoneNumber
    /\ Cardinality(last.writes) = 1
    /\ \E a, b \in {1, 2} :
         IsPrimary(contacts[a]) /\ IsSecondaryOf(contacts[b], a)

(* ---------------------------------------------------------------------- *)
(* C22                                                                     *)
(* ---------------------------------------------------------------------- *)

\* C22: the response of every call served alone lists the request's email
\* in emails when the request carries one, and the request's phone in
\* phoneNumbers when it carries one.
C22_ResponseHasRequestValues ==
    last.status = "ok" =>
        /\ last.resps # {}
        /\ \A resp \in last.resps :
             /\ Supplied(last.req.email) =>
                  last.req.email \in Range(resp.emails)
             /\ Supplied(last.req.phoneNumber) =>
                  last.req.phoneNumber \in Range(resp.phoneNumbers)

\* C22 happened: the request matched a secondary only and brought a new
\* phone; the response, built around the row the call made primary, lists
\* the request's email first and the new phone after another one.
C22_Witness ==
    /\ last.status = "ok"
    /\ Supplied(last.req.email) /\ Supplied(last.req.phoneNumber)
    /\ last.created = Len(contacts)
    /\ last.primaryID \in last.writes
    /\ \E resp \in last.resps :
         /\ resp.emails[1] = last.req.email
         /\ Len(resp.phoneNumbers) = 2
         /\ resp.phoneNumbers[2] = last.req.phoneNumber

(* ---------------------------------------------------------------------- *)
(* C21                                                                     *)
(* ---------------------------------------------------------------------- *)

\* The columns of row i no statement of Identify writes once the row
\* exists (the id is the row's position in the table).
KeptColumns(store, i) ==
    [email |-> store[i].email, phoneNumber |-> store[i].phoneNumber,
     createdAt |-> store[i].createdAt, deletedAt |-> store[i].deletedAt]

\* C21: a call of Identify removes no row, leaves id, email, phone and
\* createdAt of every existing row as they were and deletedAt unset, and
\* changes precedence and linkedId on rows of its touched set only: a row
\* outside the touched set is left as it was, column for column.
C21_FrameOfIdentify ==
    [][/\ Len(contacts') >= Len(contacts)
       /\ \A i \in IDs(contacts) :
            /\ KeptColumns(contacts', i) = KeptColumns(contacts, i)
            /\ contacts'[i].deletedAt = Nil
            /\ contacts'[i] # contacts[i] =>
                 /\ last'.status = "ok"
                 /\ i \in last'.touched
                 /\ i \in last'.writes]_vars

\* C21 happened: the call rewrote a row it had found and inserted a row,
\* while a row outside its touched set was in the table.
C21_Witness ==
    /\ last.status = "ok"
    /\ last.writes # {}
    /\ last.created = Len(contacts)
    /\ \E i \in IDs(contacts) : i \notin last.touched \cup {last.created}

(* ---------------------------------------------------------------------- *)
(* C23                                                                     *)
(* ---------------------------------------------------------------------- *)

\* Following linkedId from row i for at most n steps ends at a row with
\* linkedId null.
RECURSIVE ReachesRoot(_, _, _)
ReachesRoot(store, i, n) ==
    \/ store[i].linkedID = NilID
    \/ /\ n > 0
       /\ store[i].linkedID \in IDs(store)
       /\ ReachesRoot(store, store[i].linkedID, n - 1)

\* Every non-null linkedId is the id of another row of the table.
LinksResolve(store) ==
    \A i \in IDs(store) :
        store[i].linkedID # NilID =>
            store[i].linkedID \in IDs(store) \ {i}

\* No chain of linkedId references comes back to a row it left.
Acyclic(store) == \A i \in IDs(store) : ReachesRoot(store, i, Len(store))

\* C23: in every table the service can reach, calls that overlap and rows
\* with equal createdAt included, every non-null linkedId is the id of
\* another existing row and the linkedId references form no cycle, so
\* that every group keeps a row with linkedId null.
C23_LinksAcyclic == LinksResolve(contacts) /\ Acyclic(contacts)

====
